---- MODULE Spec2Model ----
(***************************************************************************)
(* Model of the Minesweeper knowledge base of                              *)
(* src/Knowledge/minesweeper/minesweeper.py: class Sentence (a set of      *)
(* cells and a count), class MinesweeperAI (moves_made, mines, safes and   *)
(* the list knowledge of Sentence objects) and the part of class           *)
(* Minesweeper that answers nearby_mines.                                  *)
(*                                                                         *)
(* A Sentence object is a record [cells, count]; the list knowledge is a   *)
(* sequence of such records, and an object's identity is its index in the  *)
(* sequence (two structurally equal sentences at different indexes are two *)
(* objects, as in the source).                                             *)
(*                                                                         *)
(* Also modelled: sample_pagerank and transition_model of                  *)
(* src/Uncertainty/pagerank/pagerank.py (variable pr), and the game and    *)
(* minimax of src/Search/tictactoe/tictactoe.py (variable ttt).            *)
(***************************************************************************)
EXTENDS Integers, Sequences, FiniteSets, TLC

\* ------------------------------------------------------------------ bounds
Height == 3
Width == 3
MaxMines == 8
MaxCalls == 3
MaxDeclares == 1
MaxPages == 3
MaxSamples == 3

\* The number of passes of the closure loop after which the model stops
\* following a call: one more than the 2 * height * width of the termination
\* property.
PassCap == 2 * Height * Width + 1

\* ------------------------------------------------------------------ state
VARIABLES
    board,       \* Minesweeper.mines: the cells that hold a mine
    moves_made,  \* MinesweeperAI.moves_made
    mines,       \* MinesweeperAI.mines
    safes,       \* MinesweeperAI.safes
    knowledge,   \* MinesweeperAI.knowledge
    pc,          \* "idle", or "loop" while add_knowledge is in its while loop
    new,         \* the local variable new of add_knowledge
    passes,      \* passes of the while loop begun in the latest add_knowledge
    ret,         \* what the latest add_knowledge returned
    last,        \* the latest call: [op, cell, count]
    ncalls,      \* number of add_knowledge calls so far
    ndecl,       \* number of external mark_safe / mark_mine calls so far
    decl_ok,     \* every external call so far agreed with the board
    deferred,    \* what knowledge said, and no set held, when the latest
                 \* call of add_knowledge started
    move,        \* what the latest make_safe_move / make_random_move returned
    pr,          \* the run of sample_pagerank (pagerank.py)
    ttt          \* the game of tic-tac-toe and the answer of minimax

vars == <<board, moves_made, mines, safes, knowledge, pc, new, passes, ret,
          last, ncalls, ndecl, decl_ok, deferred, move, pr, ttt>>

Cells == (0 .. Height - 1) \X (0 .. Width - 1)

\* ------------------------------------------------------------ Minesweeper
\* The cells within one row and column of cell, in bounds, cell excluded.
Neighbours(cell) ==
    {c \in Cells : /\ c # cell
                   /\ c[1] \in (cell[1] - 1) .. (cell[1] + 1)
                   /\ c[2] \in (cell[2] - 1) .. (cell[2] + 1)}

nearby_mines(b, cell) == Cardinality(Neighbours(cell) \cap b)

is_mine(b, cell) == cell \in b

\* --------------------------------------------------------------- Sentence
Sentence(cells, count) == [cells |-> cells, count |-> count]

\* known_mines with the test of known_safes.
known_mines_when_zero(s) == IF s.count = 0 THEN s.cells ELSE {}

known_mines(s) == IF Cardinality(s.cells) = s.count THEN s.cells ELSE {}

\* known_safes testing the number of cells where the source tests the count.
known_safes_when_empty(s) == IF Cardinality(s.cells) = 0 THEN s.cells ELSE {}

known_safes(s) == IF s.count = 0 THEN s.cells ELSE {}

\* mark_mine without "if cell in self.cells".
Sentence_mark_mine_unguarded(s, cell) ==
    [cells |-> s.cells \ {cell}, count |-> s.count - 1]

Sentence_mark_mine(s, cell) ==
    IF cell \in s.cells
    THEN [cells |-> s.cells \ {cell}, count |-> s.count - 1]
    ELSE s

\* mark_safe with the decrement of mark_mine.
Sentence_mark_safe_decrementing(s, cell) ==
    IF cell \in s.cells
    THEN [cells |-> s.cells \ {cell}, count |-> s.count - 1]
    ELSE s

Sentence_mark_safe(s, cell) ==
    IF cell \in s.cells
    THEN [cells |-> s.cells \ {cell}, count |-> s.count]
    ELSE s

\* ---------------------------------------------------------- MinesweeperAI
\* Let(v, F) is F(v).  It binds the value of v once, where an operator
\* argument would be evaluated again at each of its uses, which a recursion
\* over a list multiplies at every level.
Let(v, F(_)) == CHOOSE y \in {F(x) : x \in {v}} : TRUE

\* The fields of the MinesweeperAI object as one record.
KB == [moves_made |-> moves_made, mines |-> mines, safes |-> safes,
       knowledge |-> knowledge]

\* mark_mine that leaves the sentences as they are.
mark_mine_in_set_only(kb, cell) == [kb EXCEPT !.mines = @ \cup {cell}]

mark_mine(kb, cell) ==
    [kb EXCEPT !.mines = @ \cup {cell},
               !.knowledge = [i \in DOMAIN @ |-> Sentence_mark_mine(@[i], cell)]]

\* mark_safe that takes the cell out of mines.
mark_safe_unmarking_mine(kb, cell) ==
    [kb EXCEPT !.safes = @ \cup {cell},
               !.mines = @ \ {cell},
               !.knowledge = [i \in DOMAIN @ |-> Sentence_mark_safe(@[i], cell)]]

mark_safe(kb, cell) ==
    [kb EXCEPT !.safes = @ \cup {cell},
               !.knowledge = [i \in DOMAIN @ |-> Sentence_mark_safe(@[i], cell)]]

\* for cell in known_safes_cells: self.mark_safe(cell)
RECURSIVE MarkSafeCells(_, _)
MarkSafeCells(kb, cs) ==
    IF cs = {} THEN kb
    ELSE Let(CHOOSE x \in cs : TRUE,
             LAMBDA c : Let(mark_safe(kb, c),
                            LAMBDA k : MarkSafeCells(k, cs \ {c})))

\* for cell in known_mines_cells: self.mark_mine(cell)
RECURSIVE MarkMineCells(_, _)
MarkMineCells(kb, cs) ==
    IF cs = {} THEN kb
    ELSE Let(CHOOSE x \in cs : TRUE,
             LAMBDA c : Let(mark_mine(kb, c),
                            LAMBDA k : MarkMineCells(k, cs \ {c})))

\* The body of "for sentence in self.knowledge" for the sentence at index i:
\* the safes of the sentence are copied and marked, then its mines are
\* computed on the sentence as the marking left it, copied and marked.
\* The body of the loop of step 4 without its second half: the known mines
\* of the sentence are not marked.
MarkFromSentence_safes_only(kb, i) ==
    MarkSafeCells(kb, known_safes(kb.knowledge[i]))

MarkFromSentence(kb, i) ==
    Let(MarkSafeCells(kb, known_safes(kb.knowledge[i])),
        LAMBDA kb1 : MarkMineCells(kb1, known_mines(kb1.knowledge[i])))

RECURSIVE MarkLoop(_, _)
MarkLoop(kb, i) ==
    IF i > Len(kb.knowledge) THEN kb
    ELSE Let(MarkFromSentence(kb, i), LAMBDA k : MarkLoop(k, i + 1))

\* self.knowledge[:] = (x for x in self.knowledge if len(x.cells) != 0)
IsLive(x) == x.cells # {}

RemoveEmpty(kb) ==
    [kb EXCEPT !.knowledge = SelectSeq(@, IsLive)]

\* The two nested loops over knowledge_copy: the sentences they append, in
\* the order they append them.  p runs over the pairs (sentence1, sentence2)
\* in loop order.
RECURSIVE Inferred(_, _)
Inferred(copy, p) ==
    LET n == Len(copy)
        i == (p \div n) + 1
        j == (p % n) + 1
    IN  IF n = 0 \/ p >= n * n THEN <<>>
        ELSE IF i # j /\ copy[i].cells \subseteq copy[j].cells
             THEN <<Sentence(copy[j].cells \ copy[i].cells,
                             copy[j].count - copy[i].count)>>
                  \o Inferred(copy, p + 1)
             ELSE Inferred(copy, p + 1)

\* Steps 1 to 3 of add_knowledge: the move, the safe cell, the new sentence.
\* nearby_cells without "(i, j) not in self.mines".
nearby_cells_with_mines(kb, cell) ==
    {c \in Neighbours(cell) : c \notin kb.moves_made}

nearby_cells(kb, cell) ==
    {c \in Neighbours(cell) : c \notin kb.moves_made /\ c \notin kb.mines}

\* nearby_count without "count = count - 1".
nearby_count_as_given(kb, cell, count) == count

nearby_count(kb, cell, count) ==
    count - Cardinality(Neighbours(cell) \cap kb.mines)

NewSentence(kb, cell, count) ==
    Sentence(nearby_cells(kb, cell), nearby_count(kb, cell, count))

InKnowledge(s, k) == \E i \in DOMAIN k : k[i] = s

AddSentence(kb, cell, count) ==
    LET s == NewSentence(kb, cell, count)
    IN  IF s.cells # {} /\ ~InKnowledge(s, kb.knowledge)
        THEN [kb EXCEPT !.knowledge = Append(@, s)]
        ELSE kb

Begin(kb, cell, count) ==
    Let(mark_safe([kb EXCEPT !.moves_made = @ \cup {cell}], cell),
        LAMBDA kb2 : AddSentence(kb2, cell, count))

\* One pass of the body of "while True": step 4, the removal of the empty
\* sentences, step 5.
ClosureBody(kb) ==
    Let(RemoveEmpty(MarkLoop(kb, 1)),
        LAMBDA kb1 :
            Let(Inferred(kb1.knowledge, 0),
                LAMBDA inf : [kb  |-> [kb1 EXCEPT !.knowledge = @ \o inf],
                              new |-> inf # <<>>]))

\* A loop left only by a pass that inferred a sentence.
LoopReturnsWhenNew(n) == n

\* Whether the pass that computed new leaves the loop: "return new" is the
\* last statement of the body of "while True", whatever new is.
LoopReturns(n) == TRUE

RECURSIVE Closure(_, _)
Closure(kb, n) ==
    Let(ClosureBody(kb),
        LAMBDA r : IF LoopReturns(r.new) \/ n >= PassCap
                   THEN [kb |-> r.kb, new |-> r.new, passes |-> n,
                         returned |-> LoopReturns(r.new)]
                   ELSE Closure(r.kb, n + 1))

\* ----------------------------------------------------------------- Init
Boards == {b \in SUBSET Cells : Cardinality(b) <= MaxMines}

NoCall == [op |-> "none", cell |-> <<0, 0>>, count |-> 0]

\* The cells of the sentences of kb.knowledge with count = 0 that are not in
\* safes, and those of the sentences with count = len(cells) that are not in
\* mines: what step 4 of a call that starts on kb has to mark.
Deferred(kb) ==
    [safe |-> UNION {kb.knowledge[i].cells :
                        i \in {j \in DOMAIN kb.knowledge :
                                  kb.knowledge[j].count = 0}} \ kb.safes,
     mine |-> UNION {kb.knowledge[i].cells :
                        i \in {j \in DOMAIN kb.knowledge :
                                  kb.knowledge[j].count
                                      = Cardinality(kb.knowledge[j].cells)}}
                  \ kb.mines]

NoneDeferred == [safe |-> {}, mine |-> {}]

\* The value None as a cell: a pair that is in no grid.
None == <<-1, -1>>

\* The other two programs are not running.
PROff == [pc |-> "off"]

TTTOff == [pc |-> "off"]

Init ==
    /\ board \in Boards
    /\ moves_made = {}
    /\ mines = {}
    /\ safes = {}
    /\ knowledge = <<>>
    /\ pc = "idle"
    /\ new = FALSE
    /\ passes = 0
    /\ ret = FALSE
    /\ last = NoCall
    /\ ncalls = 0
    /\ ndecl = 0
    /\ decl_ok = TRUE
    /\ deferred = NoneDeferred
    /\ move = None
    /\ pr = PROff
    /\ ttt = TTTOff

SetKB(kb) ==
    /\ moves_made' = kb.moves_made
    /\ mines' = kb.mines
    /\ safes' = kb.safes
    /\ knowledge' = kb.knowledge

\* -------------------------------------------------------------- actions
\* add_knowledge(cell, count) as one step, for a cell the board has revealed
\* (not a mine) and the count the board reports for it.
AddKnowledge(cell) ==
    /\ pc = "idle"
    /\ ncalls + ndecl < MaxCalls
    /\ ~is_mine(board, cell)
    /\ \E count \in {nearby_mines(board, cell)} :
       \E r \in {Closure(Begin(KB, cell, count), 1)} :
           /\ SetKB(r.kb)
           /\ new' = r.new
           /\ passes' = r.passes
           /\ ret' = r.new
           /\ pc' = IF r.returned THEN "idle" ELSE "loop"
           /\ last' = [op |-> "add", cell |-> cell, count |-> count]
    /\ ncalls' = ncalls + 1
    /\ move' = None
    /\ deferred' = Deferred(KB)
    /\ UNCHANGED <<board, ndecl, decl_ok, pr, ttt>>

\* The same call taken one pass of its loop at a time.
AddKnowledgeBegin(cell) ==
    /\ pc = "idle"
    /\ ncalls + ndecl < MaxCalls
    /\ ~is_mine(board, cell)
    /\ \E count \in {nearby_mines(board, cell)} :
           /\ SetKB(Begin(KB, cell, count))
           /\ last' = [op |-> "add", cell |-> cell, count |-> count]
    /\ pc' = "loop"
    /\ passes' = 0
    /\ ncalls' = ncalls + 1
    /\ move' = None
    /\ deferred' = Deferred(KB)
    /\ UNCHANGED <<board, new, ret, ndecl, decl_ok, pr, ttt>>

ClosurePass ==
    /\ pc = "loop"
    /\ passes < PassCap
    /\ \E r \in {ClosureBody(KB)} :
           /\ SetKB(r.kb)
           /\ new' = r.new
           /\ pc' = IF LoopReturns(r.new) THEN "idle" ELSE "loop"
           /\ ret' = IF LoopReturns(r.new) THEN r.new ELSE ret
    /\ passes' = passes + 1
    /\ UNCHANGED <<board, last, ncalls, ndecl, decl_ok, deferred, move, pr,
                   ttt>>

\* mark_safe(cell) and mark_mine(cell) called from outside, with any cell.
\* Calls of the three kinds together are at most MaxCalls.
MarkSafe(cell) ==
    /\ pc = "idle"
    /\ ndecl < MaxDeclares
    /\ ncalls + ndecl < MaxCalls
    /\ SetKB(mark_safe(KB, cell))
    /\ decl_ok' = (decl_ok /\ ~is_mine(board, cell))
    /\ last' = [op |-> "mark_safe", cell |-> cell, count |-> 0]
    /\ ndecl' = ndecl + 1
    /\ move' = None
    /\ deferred' = NoneDeferred
    /\ UNCHANGED <<board, pc, new, passes, ret, ncalls, pr, ttt>>

MarkMine(cell) ==
    /\ pc = "idle"
    /\ ndecl < MaxDeclares
    /\ ncalls + ndecl < MaxCalls
    /\ SetKB(mark_mine(KB, cell))
    /\ decl_ok' = (decl_ok /\ is_mine(board, cell))
    /\ last' = [op |-> "mark_mine", cell |-> cell, count |-> 0]
    /\ ndecl' = ndecl + 1
    /\ move' = None
    /\ deferred' = NoneDeferred
    /\ UNCHANGED <<board, pc, new, passes, ret, ncalls, pr, ttt>>

\* make_safe_move(): the loop returns the first cell of safes, in the order
\* the set gives its cells, that is not in moves_made.  The order of a set is
\* not fixed, so this is any such cell; None when there is none.
\* make_safe_move without "if cell not in self.moves_made".
make_safe_move_any_safe(kb) ==
    IF kb.safes = {} THEN {None} ELSE kb.safes

make_safe_move(kb) ==
    IF kb.safes \ kb.moves_made = {} THEN {None}
    ELSE kb.safes \ kb.moves_made

MakeSafeMove ==
    /\ pc = "idle"
    /\ \E m \in make_safe_move(KB) :
           /\ move' = m
           /\ last' = [op |-> "safe_move", cell |-> m, count |-> 0]
    /\ UNCHANGED <<board, moves_made, mines, safes, knowledge, pc, new,
                   passes, ret, ncalls, ndecl, decl_ok, deferred, pr, ttt>>

\* make_random_move(): the test before the loop.
NoMoveLeft(kb) ==
    Cardinality(kb.moves_made) + Cardinality(kb.mines) = Height * Width

\* The test inside the loop without "and (i, j) not in self.mines".
IsCandidate_any_unmoved(kb, cell) == cell \notin kb.moves_made

\* The test inside the loop.
IsCandidate(kb, cell) == cell \notin kb.moves_made /\ cell \notin kb.mines

\* The call up to its loop: it returns None, or it starts to draw cells.
MakeRandomMove ==
    /\ pc = "idle"
    /\ pc' = IF NoMoveLeft(KB) THEN "idle" ELSE "sample"
    /\ move' = None
    /\ last' = [op |-> "random_move", cell |-> None, count |-> 0]
    /\ UNCHANGED <<board, moves_made, mines, safes, knowledge, new, passes,
                   ret, ncalls, ndecl, decl_ok, deferred, pr, ttt>>

\* One pass of the loop: the cell (i, j) drawn is returned or dropped.
RandomDraw(cell) ==
    /\ pc = "sample"
    /\ IF IsCandidate(KB, cell)
       THEN /\ move' = cell
            /\ pc' = "idle"
            /\ last' = [op |-> "random_move", cell |-> cell, count |-> 0]
       ELSE UNCHANGED <<move, pc, last>>
    /\ UNCHANGED <<board, moves_made, mines, safes, knowledge, new, passes,
                   ret, ncalls, ndecl, decl_ok, deferred, pr, ttt>>

\* ------------------------------------------------------------- pagerank
\* The variables of the minesweeper knowledge base.
mvars == <<board, moves_made, mines, safes, knowledge, pc, new, passes, ret,
           last, ncalls, ndecl, decl_ok, deferred, move>>

\* DAMPING = 0.85, in hundredths.
DAMPING == 85

\* The damping factors tried: none, that of the program, full.
Dampings == {0, DAMPING, 100}

\* What crawl returns: each page of the corpus with the set of the other
\* pages of the corpus that it links to.
Corpora ==
    UNION {{c \in [ps -> SUBSET ps] : \A q \in ps : q \notin c[q]} :
              ps \in (SUBSET (1 .. MaxPages)) \ {{}}}

\* transition_model(corpus, page, damping_factor): the probability of each
\* page, times 100 * len(corpus) * len(corpus[page]) (times len(corpus) for
\* a page without links), so that it is an integer.
transition_model(corpus, page, damping_factor) ==
    IF Cardinality(corpus[page]) = 0
    THEN [key \in DOMAIN corpus |-> 1]
    ELSE [key \in DOMAIN corpus |->
             (IF key \in corpus[page]
              THEN damping_factor * Cardinality(DOMAIN corpus) ELSE 0)
             + (100 - damping_factor) * Cardinality(corpus[page])]

\* random.choices(list(corpus), weights): any page of positive weight.
Choices(weights) == {q \in DOMAIN weights : weights[q] > 0}

\* sample.count(page)
Count(sample, page) ==
    Cardinality({k \in DOMAIN sample : sample[k] = page})

\* The call sample_pagerank(corpus, damping_factor, n) before its first
\* statement.
PRCall(corpus, damping_factor, n) ==
    [pc |-> "start", corpus |-> corpus, damping_factor |-> damping_factor,
     n |-> n, sample |-> <<>>, page |-> 0, i |-> 0, values |-> <<>>]

InitPR ==
    /\ board = {}
    /\ moves_made = {}
    /\ mines = {}
    /\ safes = {}
    /\ knowledge = <<>>
    /\ pc = "idle"
    /\ new = FALSE
    /\ passes = 0
    /\ ret = FALSE
    /\ last = NoCall
    /\ ncalls = 0
    /\ ndecl = 0
    /\ decl_ok = TRUE
    /\ deferred = NoneDeferred
    /\ move = None
    /\ ttt = TTTOff
    /\ \E corpus \in Corpora, d \in Dampings, n \in 1 .. MaxSamples :
           pr = PRCall(corpus, d, n)

\* sample = []; page = random.choice(list(corpus)); sample.append(page)
SampleFirst ==
    /\ pr.pc = "start"
    /\ \E page \in DOMAIN pr.corpus :
           pr' = [pr EXCEPT !.pc = "loop", !.page = page,
                            !.sample = Append(@, page)]
    /\ UNCHANGED <<mvars, ttt>>

\* One pass of "for i in range(n)".
SampleNext ==
    /\ pr.pc = "loop"
    /\ pr.i < pr.n
    /\ \E page \in Choices(transition_model(pr.corpus, pr.page,
                                             pr.damping_factor)) :
           pr' = [pr EXCEPT !.page = page, !.sample = Append(@, page),
                            !.i = @ + 1]
    /\ UNCHANGED <<mvars, ttt>>

\* The loop is over: pagerank_values[page] = sample.count(page) / n, kept as
\* the fraction num / den.
SampleReturn ==
    /\ pr.pc = "loop"
    /\ pr.i = pr.n
    /\ pr' = [pr EXCEPT !.pc = "done",
                        !.values = [page \in DOMAIN pr.corpus |->
                                       [num |-> Count(pr.sample, page),
                                        den |-> pr.n]]]
    /\ UNCHANGED <<mvars, ttt>>

NextPR == SampleFirst \/ SampleNext \/ SampleReturn

SpecPR == InitPR /\ [][NextPR]_vars

\* ------------------------------------------------------------ tictactoe
X == "X"

O == "O"

\* EMPTY = None: what an empty square holds, and what winner returns when
\* nobody has won.
EMPTY == "EMPTY"

\* math.inf, as a number above every utility.
Inf == 2

Squares == (0 .. 2) \X (0 .. 2)

initial_state == [sq \in Squares |-> EMPTY]

player(b) ==
    IF Cardinality({sq \in Squares : b[sq] = X})
           = Cardinality({sq \in Squares : b[sq] = O})
    THEN X ELSE O

actions(b) == {sq \in Squares : b[sq] = EMPTY}

\* result(board, action), for an action of actions(board).
result(b, action) == [b EXCEPT ![action] = player(b)]

\* The rows, the columns and the two diagonals, in the order winner looks
\* at them.
Lines ==
    << {<<0, 0>>, <<0, 1>>, <<0, 2>>}, {<<1, 0>>, <<1, 1>>, <<1, 2>>},
       {<<2, 0>>, <<2, 1>>, <<2, 2>>}, {<<0, 0>>, <<1, 0>>, <<2, 0>>},
       {<<0, 1>>, <<1, 1>>, <<2, 1>>}, {<<0, 2>>, <<1, 2>>, <<2, 2>>},
       {<<0, 0>>, <<1, 1>>, <<2, 2>>}, {<<0, 2>>, <<1, 1>>, <<2, 0>>} >>

\* The three squares of line k hold player_sign.
HasLine(b, k, player_sign) == \A sq \in Lines[k] : b[sq] = player_sign

\* winner(board): the sign of the first line, in that order, that one
\* player fills.
winner(b) ==
    LET won == {k \in DOMAIN Lines : HasLine(b, k, X) \/ HasLine(b, k, O)}
    IN  IF won = {} THEN EMPTY
        ELSE LET k == CHOOSE i \in won : \A j \in won : i <= j
             IN  IF HasLine(b, k, X) THEN X ELSE O

terminal(b) ==
    IF winner(b) \in {X, O} THEN TRUE
    ELSE IF actions(b) = {} THEN TRUE
    ELSE FALSE

utility(b) ==
    IF winner(b) = X THEN 1
    ELSE IF winner(b) = O THEN -1
    ELSE 0

\* The value of v after "for ...: v = min(v, x)" over the values vs, from
\* v = math.inf; and so for max, from v = -math.inf.
MinOf(vs) == CHOOSE m \in vs \cup {Inf} : \A x \in vs \cup {Inf} : m <= x

MaxOf(vs) == CHOOSE m \in vs \cup {-Inf} : \A x \in vs \cup {-Inf} : m >= x

RECURSIVE min_value(_), max_value(_)
\* min_value that takes the highest value.
min_value_taking_max(b) ==
    IF terminal(b) THEN utility(b)
    ELSE MaxOf({max_value(result(b, action)) : action \in actions(b)})

min_value(b) ==
    IF terminal(b) THEN utility(b)
    ELSE MinOf({max_value(result(b, action)) : action \in actions(b)})

max_value(b) ==
    IF terminal(b) THEN utility(b)
    ELSE MaxOf({min_value(result(b, action)) : action \in actions(b)})

\* The game before a call of minimax.
Game(b) ==
    [pc |-> "play", board |-> b, todo |-> {}, action_value |-> <<>>,
     best_value |-> 0, best_action |-> None]

InitTTT ==
    /\ board = {}
    /\ moves_made = {}
    /\ mines = {}
    /\ safes = {}
    /\ knowledge = <<>>
    /\ pc = "idle"
    /\ new = FALSE
    /\ passes = 0
    /\ ret = FALSE
    /\ last = NoCall
    /\ ncalls = 0
    /\ ndecl = 0
    /\ decl_ok = TRUE
    /\ deferred = NoneDeferred
    /\ move = None
    /\ pr = PROff
    /\ ttt = Game(initial_state)

\* A player makes a move on a board that is not terminal.
Play(action) ==
    /\ ttt.pc \in {"play", "returned"}
    /\ ~terminal(ttt.board)
    /\ action \in actions(ttt.board)
    /\ ttt' = Game(result(ttt.board, action))
    /\ UNCHANGED <<mvars, pr>>

\* minimax(board) up to its loop.  action_value holds, for each action, the
\* value that the loop computes for it when it comes to it.
MinimaxCall ==
    /\ ttt.pc = "play"
    /\ IF terminal(ttt.board)
       THEN ttt' = [ttt EXCEPT !.pc = "returned", !.best_action = None]
       ELSE ttt' = [ttt EXCEPT
               !.pc = "loop",
               !.todo = actions(ttt.board),
               !.best_action = None,
               !.best_value = IF player(ttt.board) = X THEN -Inf ELSE Inf,
               !.action_value =
                   IF player(ttt.board) = X
                   THEN [a \in actions(ttt.board) |->
                            min_value(result(ttt.board, a))]
                   ELSE [a \in actions(ttt.board) |->
                            max_value(result(ttt.board, a))]]
    /\ UNCHANGED <<mvars, pr>>

\* One pass of "for action in actions(board)": the set gives its actions in
\* an order that is not fixed.  A pass that finds the value 1 for X, -1 for
\* O, breaks out of the loop.
MinimaxStep(action) ==
    /\ ttt.pc = "loop"
    /\ action \in ttt.todo
    /\ LET v == ttt.action_value[action]
           isX == player(ttt.board) = X
           better == IF isX THEN v > ttt.best_value ELSE v < ttt.best_value
           breaks == better /\ v = (IF isX THEN 1 ELSE -1)
       IN  ttt' = [ttt EXCEPT
               !.todo = IF breaks THEN {} ELSE @ \ {action},
               !.best_value = IF better THEN v ELSE @,
               !.best_action = IF better THEN action ELSE @]
    /\ UNCHANGED <<mvars, pr>>

\* return best_action
MinimaxReturn ==
    /\ ttt.pc = "loop"
    /\ ttt.todo = {}
    /\ ttt' = [ttt EXCEPT !.pc = "returned", !.action_value = <<>>,
                          !.best_value = 0]
    /\ UNCHANGED <<mvars, pr>>

NextTTT ==
    \/ \E action \in Squares : Play(action)
    \/ MinimaxCall
    \/ \E action \in Squares : MinimaxStep(action)
    \/ MinimaxReturn

SpecTTT == InitTTT /\ [][NextTTT]_vars

\* ------------------------------------------------------- specifications
\* Observations only.
Next == \E cell \in Cells : AddKnowledge(cell)

Spec == Init /\ [][Next]_vars

\* Observations and declarations of any cell.
NextAny ==
    \/ \E cell \in Cells : AddKnowledge(cell)
    \/ \E cell \in Cells : MarkSafe(cell)
    \/ \E cell \in Cells : MarkMine(cell)

SpecAny == Init /\ [][NextAny]_vars

\* Observations, one pass of the loop at a time.  The program is a single
\* thread that runs without suspension, so a step that is possible is taken.
NextLive ==
    \/ \E cell \in Cells : AddKnowledgeBegin(cell)
    \/ ClosurePass

SpecLive == Init /\ [][NextLive]_vars /\ WF_vars(ClosurePass)

\* The five operations.  The move queries are asked in the states that at
\* most MaxMoveCalls calls of the other three reach.  A cell that the loop
\* of make_random_move can return is drawn in the end.
MaxMoveCalls == 2

NextMoves ==
    \/ /\ ncalls + ndecl < MaxMoveCalls
       /\ \/ \E cell \in Cells : AddKnowledge(cell)
          \/ \E cell \in Cells : MarkSafe(cell)
          \/ \E cell \in Cells : MarkMine(cell)
    \/ MakeSafeMove
    \/ MakeRandomMove
    \/ \E cell \in Cells : RandomDraw(cell)

SpecMoves ==
    Init /\ [][NextMoves]_vars /\ WF_vars(\E cell \in Cells : RandomDraw(cell))

\* ---------------------------------------------------------------- claims
\* The latest call was add_knowledge and it has returned.
Returned == pc = "idle" /\ last.op = "add"

\* C1 (soundness): under observations of cells that are not mines, with the
\* board's own count, no cell of safes is a mine of the board and every cell
\* of mines is one.
Soundness ==
    /\ safes \cap board = {}
    /\ mines \subseteq board

\* A call has inferred a safe cell that was never moved on, and a mine.
SoundnessWitness ==
    /\ Returned
    /\ safes \ moves_made # {}
    /\ mines # {}
    /\ ncalls >= 2

\* C5: under such observations every sentence of knowledge has
\* 0 <= count <= |cells|, the reduced ones and the inferred ones included.
CountInRange ==
    \A i \in DOMAIN knowledge :
        /\ 0 <= knowledge[i].count
        /\ knowledge[i].count <= Cardinality(knowledge[i].cells)

\* A call has returned after inferring a sentence, with a known mine and a
\* sentence that is still undecided in knowledge.
CountInRangeWitness ==
    /\ Returned
    /\ ret
    /\ mines # {}
    /\ \E i \in DOMAIN knowledge :
           /\ 0 < knowledge[i].count
           /\ knowledge[i].count < Cardinality(knowledge[i].cells)

\* C7 (zero-count deduction): when add_knowledge(cell, 0) returns, every
\* neighbour of cell is in safes.
ZeroCountDeduction ==
    (Returned /\ last.count = 0) => Neighbours(last.cell) \subseteq safes

\* add_knowledge((1, 1), 0) on a new knowledge base: the 8 neighbours are safe.
ZeroCountWitness ==
    /\ Returned
    /\ ncalls = 1
    /\ last.cell = <<1, 1>>
    /\ last.count = 0
    /\ Cardinality(Neighbours(last.cell)) = 8
    /\ safes = Neighbours(last.cell) \cup {last.cell}

\* C8 (all-mines deduction): when the first call on a new knowledge base is
\* add_knowledge(cell, k) with k the number of neighbours of cell, every
\* neighbour of cell is in mines when it returns.
AllMinesDeduction ==
    (/\ Returned
     /\ ncalls = 1
     /\ ndecl = 0
     /\ last.count = Cardinality(Neighbours(last.cell)))
        => Neighbours(last.cell) \subseteq mines

\* add_knowledge((0, 0), 3): the 3 neighbours of the corner are mines.
AllMinesWitness ==
    /\ Returned
    /\ ncalls = 1
    /\ last.cell = <<0, 0>>
    /\ last.count = 3
    /\ mines = {<<0, 1>>, <<1, 0>>, <<1, 1>>}

\* No sentence of k with cells has count = 0 or count = |cells|: a pass over
\* k would mark no cell.
NothingToDeclare(k) ==
    \A i \in DOMAIN k :
        k[i].cells # {} =>
            /\ k[i].count # 0
            /\ k[i].count # Cardinality(k[i].cells)

\* What the subset rule gives for two sentences of k, one a strict subset of
\* the other, is in k already.
NothingToInfer(k) ==
    \A i, j \in DOMAIN k :
        (/\ i # j
         /\ k[i].cells # {}
         /\ k[i].cells \subseteq k[j].cells
         /\ k[i].cells # k[j].cells)
            => InKnowledge(Sentence(k[j].cells \ k[i].cells,
                                    k[j].count - k[i].count), k)

\* C2 (fixed point at return): when add_knowledge returns, one more pass
\* would mark no cell safe or mine and would infer no sentence that
\* knowledge does not hold.
FixedPointAtReturn ==
    Returned => (NothingToDeclare(knowledge) /\ NothingToInfer(knowledge))

\* A step that is a call of add_knowledge: B is the sentence the call builds,
\* A a sentence of knowledge when the call starts.
SubsetInferenceStep ==
    (last'.op = "add" /\ ncalls' = ncalls + 1 /\ pc' = "idle") =>
        LET cell == last'.cell
            kb2 == mark_safe([KB EXCEPT !.moves_made = @ \cup {cell}], cell)
            B == NewSentence(kb2, cell, last'.count)
        IN  (B.cells # {} /\ ~InKnowledge(B, kb2.knowledge)) =>
                \A i \in DOMAIN knowledge :
                    LET A == knowledge[i]
                    IN  (/\ A.cells # {}
                         /\ A.cells \subseteq B.cells
                         /\ A.cells # B.cells
                         /\ B.count - A.count
                                = Cardinality(B.cells \ A.cells))
                            => (B.cells \ A.cells) \subseteq mines'

\* C3 (subset inference): when knowledge holds a sentence A with cells and a
\* call of add_knowledge adds a sentence B with A.cells a strict subset of
\* B.cells and B.count - A.count = |B.cells \ A.cells|, every cell of
\* B.cells \ A.cells is in mines when the call returns.
SubsetInference == [][SubsetInferenceStep]_vars

\* C6: when a call has returned, no sentence of knowledge holds a cell of
\* safes or of mines.
NoKnownCellInKnowledge ==
    pc = "idle" =>
        \A i \in DOMAIN knowledge :
            knowledge[i].cells \cap (safes \cup mines) = {}

\* C4 as stated: after any calls of add_knowledge, mark_safe and mark_mine,
\* with any cell, safes and mines are disjoint.
SafesMinesDisjoint == safes \cap mines = {}

\* C4 as amended: safes and mines are disjoint as long as every external
\* mark_safe was given a cell that is not a mine of the board and every
\* external mark_mine a cell that is one.
DisjointWhenDeclaredTruly == decl_ok => safes \cap mines = {}

\* A mine was declared from outside and agreed with the board, calls of
\* add_knowledge came before and after it, and both sets have cells.
DisjointWitness ==
    /\ decl_ok
    /\ ndecl >= 1
    /\ Returned
    /\ ncalls >= 2
    /\ mines # {}
    /\ safes \ moves_made # {}

\* C9 (idempotence of the declarations): in every reachable state and for
\* every cell, mark_safe(cell) twice leaves moves_made, mines, safes and
\* knowledge as mark_safe(cell) once leaves them, and so for mark_mine.
DeclareIdempotent ==
    \A cell \in Cells :
        /\ mark_safe(mark_safe(KB, cell), cell) = mark_safe(KB, cell)
        /\ mark_mine(mark_mine(KB, cell), cell) = mark_mine(KB, cell)

\* mark_mine has just been called from outside, and knowledge holds a
\* sentence whose count it lowered.
DeclareIdempotentWitness ==
    /\ last.op = "mark_mine"
    /\ pc = "idle"
    /\ last.cell \in mines
    /\ \E i \in DOMAIN knowledge :
           /\ knowledge[i].cells # {}
           /\ knowledge[i].count
                  = nearby_mines(board \ {last.cell}, <<0, 0>>)
           /\ knowledge[i].cells = Neighbours(<<0, 0>>) \ {last.cell}
           /\ last.cell \in Neighbours(<<0, 0>>) \cap board
           /\ <<0, 0>> \in moves_made

\* C10 (termination): every call of add_knowledge returns, after at most
\* 2 * height * width passes of its loop.
Termination ==
    /\ [](passes <= 2 * Height * Width)
    /\ (pc = "loop") ~> (pc = "idle")

\* A call has returned after its pass, with sentences inferred.
TerminationWitness ==
    /\ Returned
    /\ passes = 1
    /\ ret
    /\ ncalls >= 2

\* A step that is a whole call of add_knowledge.
IsAddCall == last'.op = "add" /\ ncalls' = ncalls + 1 /\ pc' = "idle"

\* The knowledge base of the call of this step after the sentence of the
\* observation was added, and after step 4 and the removal of the empty
\* sentences; the sentences step 5 then appends, in the order of the code.
CallBegun == Begin(KB, last'.cell, last'.count)

CallMarked == RemoveEmpty(MarkLoop(CallBegun, 1))

CallInferred == Inferred(CallMarked.knowledge, 0)

\* The k-th sentence step 5 appends is equal to none that knowledge holds
\* when it is appended.
AppendedIsNew(k) ==
    ~InKnowledge(CallInferred[k],
                 CallMarked.knowledge \o SubSeq(CallInferred, 1, k - 1))

DeduplicatedInsertionStep ==
    IsAddCall =>
        /\ Len(CallBegun.knowledge) > Len(knowledge) =>
               ~InKnowledge(CallBegun.knowledge[Len(CallBegun.knowledge)],
                            mark_safe(KB, last'.cell).knowledge)
        /\ \A k \in DOMAIN CallInferred : AppendedIsNew(k)

\* C17 (deduplicated insertion): a call of add_knowledge appends no sentence
\* equal (same cells, same count) to one that knowledge holds at that
\* moment, neither the sentence of the observation nor a sentence inferred
\* by the subset rule.
DeduplicatedInsertion == [][DeduplicatedInsertionStep]_vars

\* C18 (empty sentences are purged): when add_knowledge has returned, no
\* sentence of knowledge has an empty set of cells, those inferred in the
\* call from two sentences with equal cells included.
EmptyPurged ==
    Returned => \A i \in DOMAIN knowledge : knowledge[i].cells # {}

ReturnsNewStep ==
    IsAddCall => (ret' <=> \E k \in DOMAIN CallInferred : AppendedIsNew(k))

\* C11: add_knowledge returns True exactly when the call appended at least
\* one inferred sentence equal to none that knowledge held when it was
\* appended, and False when the subset rule gave nothing new.
ReturnsWhetherNew == [][ReturnsNewStep]_vars

\* C20: after every call of add_knowledge, mark_safe or mark_mine, with any
\* cell, has returned, no sentence of knowledge holds a cell of mines.
NoMineInKnowledge ==
    pc = "idle" =>
        \A i \in DOMAIN knowledge : knowledge[i].cells \cap mines = {}

\* add_knowledge has returned after a mine was declared from outside: mines
\* has a cell that add_knowledge found, and knowledge a sentence with a
\* neighbour of a known mine left out of it.
NoMineInKnowledgeWitness ==
    /\ Returned
    /\ ndecl = 1
    /\ Cardinality(mines) >= 2
    /\ \E i \in DOMAIN knowledge :
           /\ knowledge[i].cells # {}
           /\ \E c \in knowledge[i].cells : Neighbours(c) \cap mines # {}

\* A sentence whose count no set of mines can have.
IsInconsistent(s) == s.count < 0 \/ s.count > Cardinality(s.cells)

InconsistentDiscardedStep ==
    IsAddCall =>
        \A k \in DOMAIN CallInferred :
            IsInconsistent(CallInferred[k]) =>
                ~InKnowledge(CallInferred[k], knowledge')

\* C19 (inconsistent derivation): a sentence that the subset rule infers
\* with count < 0 or count > |cells| is not in knowledge when add_knowledge
\* returns.
InconsistentDiscarded == [][InconsistentDiscardedStep]_vars

SafeMoveStep ==
    last'.op = "safe_move" =>
        /\ safes \ moves_made # {} => move' \in safes \ moves_made
        /\ move' = None <=> safes \ moves_made = {}
        /\ UNCHANGED <<moves_made, safes, mines, knowledge>>

\* C12: in every reachable state make_safe_move returns a cell of safes that
\* is not in moves_made when there is one, None exactly when there is none,
\* and leaves moves_made, safes, mines and knowledge as they were.
SafeMove == [][SafeMoveStep]_vars

\* make_safe_move has returned a cell, one of several it could return, with
\* a cell of safes that it may not return.
SafeMoveWitness ==
    /\ last.op = "safe_move"
    /\ move \in safes \ moves_made
    /\ Cardinality(safes \ moves_made) >= 2
    /\ safes \cap moves_made # {}

\* C14 (monotonic growth): across every step of every sequence of calls of
\* add_knowledge, mark_safe, mark_mine, make_safe_move and make_random_move,
\* each of moves_made, safes and mines after the step contains what it was
\* before.
MonotonicGrowth ==
    [][/\ moves_made \subseteq moves_made'
       /\ safes \subseteq safes'
       /\ mines \subseteq mines']_vars

\* A move query has answered after add_knowledge and a declaration from
\* outside, and each of the three sets has grown.
MonotonicGrowthWitness ==
    /\ last.op \in {"safe_move", "random_move"}
    /\ pc = "idle"
    /\ move # None
    /\ ncalls >= 1
    /\ ndecl >= 1
    /\ moves_made # {}
    /\ safes \ moves_made # {}
    /\ mines # {}

\* The cells make_random_move may return.
Unresolved == Cells \ (moves_made \cup mines)

\* What make_random_move answers, as far as a finite run shows it: None only
\* when no cell is left, a loop only when a cell is left, and a cell that is
\* left.
RandomMoveAnswer ==
    /\ (last.op = "random_move" /\ pc = "idle" /\ move = None)
           => Unresolved = {}
    /\ pc = "sample" => Unresolved # {}
    /\ (last.op = "random_move" /\ pc = "idle" /\ move # None)
           => move \in Unresolved

RECURSIVE SumNum(_, _)
SumNum(values, ps) ==
    IF ps = {} THEN 0
    ELSE LET q == CHOOSE x \in ps : TRUE
         IN  values[q].num + SumNum(values, ps \ {q})

\* C15: the values sample_pagerank returns sum to 1: the counts that it
\* divides by n add up to n, for every corpus with a page and every n >= 1.
ValuesSumToOne ==
    pr.pc = "done" =>
        /\ \A page \in DOMAIN pr.values : pr.values[page].den = pr.n
        /\ SumNum(pr.values, DOMAIN pr.values) = pr.n

\* The boards with k empty squares where X has as many marks as O or one
\* more.
BoardsWithEmpty(k) ==
    {b \in [Squares -> {X, O, EMPTY}] :
        /\ Cardinality({sq \in Squares : b[sq] = EMPTY}) = k
        /\ Cardinality({sq \in Squares : b[sq] = X})
             - Cardinality({sq \in Squares : b[sq] = O}) \in {0, 1}}

\* The best of the values vs for player p: the highest for X, the lowest
\* for O.
BestFor(p, vs) ==
    IF p = X THEN CHOOSE m \in vs : \A x \in vs : m >= x
    ELSE CHOOSE m \in vs : \A x \in vs : m <= x

\* The value of the game from each board with at most k empty squares, by
\* backward induction: 1 when X wins with best play of both, -1 when O
\* does, 0 for a draw.
RECURSIVE ValueTable(_)
ValueTable(k) ==
    IF k = 0 THEN [b \in BoardsWithEmpty(0) |-> utility(b)] @@ <<>>
    ELSE Let(ValueTable(k - 1),
             LAMBDA t :
                 t @@ [b \in BoardsWithEmpty(k) |->
                          IF terminal(b) THEN utility(b)
                          ELSE BestFor(player(b),
                                       {t[result(b, a)] : a \in actions(b)})])

GameValue == ValueTable(9)

\* C16: on every board reached from initial_state by the two players'
\* moves in turn, minimax returns None exactly when the board is terminal,
\* and otherwise an action of actions(board) after which the value of the
\* game is the best that any action gives the player to move.
MinimaxOptimal ==
    ttt.pc = "returned" =>
        IF terminal(ttt.board) THEN ttt.best_action = None
        ELSE /\ ttt.best_action \in actions(ttt.board)
             /\ GameValue[result(ttt.board, ttt.best_action)]
                  = BestFor(player(ttt.board),
                            {GameValue[result(ttt.board, a)] :
                                a \in actions(ttt.board)})

\* minimax has returned an action for O on a board where some other action
\* loses the game for O.
MinimaxOptimalWitness ==
    /\ ttt.pc = "returned"
    /\ ~terminal(ttt.board)
    /\ player(ttt.board) = O
    /\ ttt.best_action \in actions(ttt.board)
    /\ GameValue[result(ttt.board, ttt.best_action)] = 0
    /\ \E a \in actions(ttt.board) : GameValue[result(ttt.board, a)] = 1

DeferredInferenceStep ==
    IsAddCall =>
        \A i \in DOMAIN knowledge :
            /\ knowledge[i].count = 0 => knowledge[i].cells \subseteq safes'
            /\ knowledge[i].count = Cardinality(knowledge[i].cells)
                   => knowledge[i].cells \subseteq mines'

\* C21 (deferred inference): under observations of cells that are not mines,
\* with the board's own count, every sentence that is in knowledge when a
\* call of add_knowledge starts and has count = 0 has all its cells in safes
\* when the call returns, and every one that has count = |cells| has them in
\* mines: what a sentence inferred in one call says is marked by the end of
\* the next call at the latest.
DeferredInference == [][DeferredInferenceStep]_vars

\* add_knowledge has returned from a call that started with a sentence of
\* count = 0, inferred by the call before it, whose cells were not in safes.
DeferredInferenceWitness ==
    /\ Returned
    /\ ncalls >= 3
    /\ Cardinality(deferred.safe) >= 2
    /\ deferred.safe \subseteq safes
    /\ deferred.mine \subseteq mines

====
